---- MODULE Spec2Model ----
(***************************************************************************)
(* A model of LLMCalibrator (llm_calibrator_core.py): the correctness      *)
(* evaluator, the lexical hedge scorer, the answer generator boundary,     *)
(* the per-question evaluation run and the calibration aggregator.         *)
(*                                                                         *)
(* Text is a sequence of one-character strings, so that lower-casing,      *)
(* substring search and the regular expression's word boundaries are       *)
(* computed character by character.                                        *)
(***************************************************************************)
EXTENDS Integers, Sequences, FiniteSets, TLC

VARIABLES
    questions,          \* Spec: the question records of the run
    outcomes,           \* Spec: what the provider did on each query so far
    answers,            \* Spec: what each call of query_llm did
    run_results,        \* Spec: the result records emitted so far
    pc,                 \* Spec: "running", "done" or "aborted"
    llm_answer,         \* SpecEval: the answer handed to the scorers
    ground_truth,       \* SpecEval: None or Some(text)
    correct,            \* SpecEval: what is_factually_correct returned
    hedge_score,        \* SpecEval: what detect_specific_hedges returned
    evaluated,          \* SpecEval: which of the two scorers have been applied
    float_sum,          \* SpecCalib: how the interpreter's sum() adds floats
    results,            \* SpecCalib: the list handed to calculate_calibration
    calibration_score,  \* SpecCalib: what calculate_calibration returned
    calls               \* SpecCalib: how often calculate_calibration was called

runVars == <<questions, outcomes, answers, run_results, pc>>

evalVars == <<llm_answer, ground_truth, correct, hedge_score, evaluated>>

calibVars == <<float_sum, results, calibration_score, calls>>

vars == <<runVars, evalVars, calibVars>>

----------------------------------------------------------------------------
(* Bounds of the model.                                                    *)

\* An answer is a concatenation of at most MaxPieces pieces of text.
MaxPieces == 3

\* calculate_calibration is given at most MaxResults result records.
MaxResults == 3

\* An evaluation run is given at most MaxQuestions question records.
MaxQuestions == 2

----------------------------------------------------------------------------
(* Text.                                                                   *)

\* Python's None for an optional value; Some(t) is a value that is present.
None == <<>>
Some(t) == <<t>>

\* The string query_llm returns when the query fails, and that the scorers
\* compare the answer with.
FAILURE ==
    <<"E","r","r","o","r"," ","q","u","e","r","y","i","n","g"," ",
      "m","o","d","e","l",".">>

UpperToLower ==
    ("A" :> "a") @@ ("B" :> "b") @@ ("C" :> "c") @@ ("D" :> "d") @@
    ("E" :> "e") @@ ("F" :> "f") @@ ("G" :> "g") @@ ("H" :> "h") @@
    ("I" :> "i") @@ ("J" :> "j") @@ ("K" :> "k") @@ ("L" :> "l") @@
    ("M" :> "m") @@ ("N" :> "n") @@ ("O" :> "o") @@ ("P" :> "p") @@
    ("Q" :> "q") @@ ("R" :> "r") @@ ("S" :> "s") @@ ("T" :> "t") @@
    ("U" :> "u") @@ ("V" :> "v") @@ ("W" :> "w") @@ ("X" :> "x") @@
    ("Y" :> "y") @@ ("Z" :> "z")

\* str.lower(), one character.
LowerChar(c) == IF c \in DOMAIN UpperToLower THEN UpperToLower[c] ELSE c

\* str.lower().
lower(s) == [i \in 1..Len(s) |-> LowerChar(s[i])]

\* The characters the regular expression's \w matches.
WordChars ==
    DOMAIN UpperToLower
    \cup {UpperToLower[c] : c \in DOMAIN UpperToLower}
    \cup {"0","1","2","3","4","5","6","7","8","9","_"}

\* Python's `needle in haystack` for strings: scan the start positions from
\* the left (p is the number of characters before the candidate).
RECURSIVE str_in_from(_, _, _)
str_in_from(needle, haystack, p) ==
    IF p + Len(needle) > Len(haystack) THEN FALSE
    ELSE IF SubSeq(haystack, p + 1, p + Len(needle)) = needle THEN TRUE
    ELSE str_in_from(needle, haystack, p + 1)

str_in(needle, haystack) == str_in_from(needle, haystack, 0)

\* What a call does: it returns a value or it raises.
Return(v) == [raised |-> FALSE, value |-> v]
Raise(e) == [raised |-> TRUE, value |-> e]

----------------------------------------------------------------------------
(* 2. LLM interaction.                                                     *)
(* The provider's part in one query is [raises, text]: raises names the    *)
(* call of the try block that fails ("GenerativeModel", "generate_content" *)
(* or "response.text"), or is "nothing", and then text is the response's   *)
(* text.                                                                   *)

\* The body of the try block: the first failing call raises out of it.
TryGenerate(provider) ==
    IF provider.raises = "GenerativeModel" THEN Raise("Exception")
    ELSE IF provider.raises = "generate_content" THEN Raise("Exception")
    ELSE IF provider.raises = "response.text" THEN Raise("Exception")
    ELSE Return(provider.text)

\* A plausible slip: no except clause, the error reaches the caller.
query_llm_uncaught(provider) == TryGenerate(provider)

\* A plausible slip: response.text is read after the try block.
query_llm_text_outside_try(provider) ==
    IF provider.raises = "response.text" THEN Raise("Exception")
    ELSE IF TryGenerate(provider).raised THEN Return(FAILURE)
    ELSE TryGenerate(provider)

query_llm(provider) ==
    IF TryGenerate(provider).raised THEN Return(FAILURE)
    ELSE TryGenerate(provider)

----------------------------------------------------------------------------
(* 3. Answer evaluation.                                                   *)

\* A plausible slip: the comparison forgets to lower-case the answer.
is_factually_correct_case_sensitive(answer, truth) ==
    IF truth = None THEN TRUE
    ELSE IF answer = FAILURE THEN FALSE
    ELSE str_in(lower(truth[1]), answer)

is_factually_correct(answer, truth) ==
    IF truth = None THEN TRUE
    ELSE IF answer = FAILURE THEN FALSE
    ELSE str_in(lower(truth[1]), lower(answer))

----------------------------------------------------------------------------
(* 4. Hedge detection.                                                     *)

hedge_words ==
    << <<"m","i","g","h","t">>,
       <<"c","o","u","l","d">>,
       <<"m","a","y">>,
       <<"p","o","s","s","i","b","l","y">>,
       <<"p","r","o","b","a","b","l","y">>,
       <<"p","e","r","h","a","p","s">>,
       <<"s","e","e","m","s">>,
       <<"a","p","p","e","a","r","s">>,
       <<"s","u","g","g","e","s","t","s">>,
       <<"i","n","d","i","c","a","t","e","s">>,
       <<"I","'","m"," ","n","o","t"," ","s","u","r","e">>,
       <<"i","t"," ","i","s"," ","b","e","l","i","e","v","e","d"," ",
         "t","h","a","t">>,
       <<"u","n","s","u","r","e">>,
       <<"u","n","c","e","r","t","a","i","n">>,
       <<"s","p","e","c","u","l","a","t","i","v","e">>,
       <<"p","o","t","e","n","t","i","a","l">>,
       <<"i","t","'","s"," ","p","o","s","s","i","b","l","e">>,
       <<"o","n","e"," ","m","i","g","h","t"," ","a","r","g","u","e">> >>

\* Whether the character at index i of s exists and is a word character.
IsWordAt(s, i) == i \in 1..Len(s) /\ s[i] \in WordChars

\* The regular expression's \b after the first p characters of s: exactly
\* one of the two neighbouring positions holds a word character.
WordBoundary(s, p) == IsWordAt(s, p) # IsWordAt(s, p + 1)

\* r"\b" + re.escape(pattern) + r"\b" matched with p characters before it.
PatternMatchesAt(pattern, s, p) ==
    /\ WordBoundary(s, p)
    /\ SubSeq(s, p + 1, p + Len(pattern)) = pattern
    /\ WordBoundary(s, p + Len(pattern))

\* re.search: the leftmost start position that matches, if any.
RECURSIVE re_search_from(_, _, _)
re_search_from(pattern, s, p) ==
    IF p + Len(pattern) > Len(s) THEN FALSE
    ELSE IF PatternMatchesAt(pattern, s, p) THEN TRUE
    ELSE re_search_from(pattern, s, p + 1)

\* A plausible slip: the pattern is searched without the \b anchors.
re_search_unanchored(pattern, s) == str_in(pattern, s)

re_search(pattern, s) == re_search_from(pattern, s, 0)

\* How many times the anchored pattern matches in s, from position p on.
RECURSIVE CountMatchesFrom(_, _, _)
CountMatchesFrom(pattern, s, p) ==
    IF p + Len(pattern) > Len(s) THEN 0
    ELSE (IF PatternMatchesAt(pattern, s, p) THEN 1 ELSE 0)
         + CountMatchesFrom(pattern, s, p + 1)

\* The loop over hedge_words, from the k-th marker on.
RECURSIVE HedgeLoop(_, _)
HedgeLoop(llm_answer_lower, k) ==
    IF k > Len(hedge_words) THEN 0
    ELSE (IF re_search(lower(hedge_words[k]), llm_answer_lower) THEN 1 ELSE 0)
         + HedgeLoop(llm_answer_lower, k + 1)

\* A plausible slip: every occurrence of a marker adds to the score.
RECURSIVE HedgeLoopFrequency(_, _)
HedgeLoopFrequency(llm_answer_lower, k) ==
    IF k > Len(hedge_words) THEN 0
    ELSE CountMatchesFrom(lower(hedge_words[k]), llm_answer_lower, 0)
         + HedgeLoopFrequency(llm_answer_lower, k + 1)

detect_specific_hedges_by_frequency(answer) ==
    IF answer = FAILURE THEN 0
    ELSE HedgeLoopFrequency(lower(answer), 1)

detect_specific_hedges(answer) ==
    IF answer = FAILURE THEN 0
    ELSE HedgeLoop(lower(answer), 1)

----------------------------------------------------------------------------
(* Python's float: IEEE 754 binary64, round to nearest, ties to even.      *)
(* A natural number is the sequence of its digits in base LimbBase, lowest *)
(* digit first, with no zero digit at the high end. A float is             *)
(* [neg, mant, exp] with the value (-1)^neg * mant * 2^exp, where mant has *)
(* exactly MantBits bits; zero has the empty mantissa. Results stay far    *)
(* inside the exponent range for the hedge scores of the model, so         *)
(* overflow and subnormals do not arise.                                   *)

\* sys.float_info.mant_dig
MantBits == 53

\* The digits of a natural hold LimbBits bits each.
LimbBits == 12

LimbBase == 2^LimbBits

LimbAt(a, i) == IF i \in 1..Len(a) THEN a[i] ELSE 0

\* The number of bits of the small natural v (v < LimbBase).
SmallBitLength(v) ==
    CHOOSE j \in 0..LimbBits : IF j = 0 THEN v = 0 ELSE 2^(j - 1) <= v /\ v < 2^j

Trim(a) ==
    LET nonzero == {i \in 1..Len(a) : a[i] # 0}
    IN  IF nonzero = {} THEN <<>>
        ELSE SubSeq(a, 1, CHOOSE i \in nonzero : \A j \in nonzero : j <= i)

\* The number of bits of the natural a (a trimmed).
BitLength(a) ==
    IF a = <<>> THEN 0
    ELSE (Len(a) - 1) * LimbBits + SmallBitLength(a[Len(a)])

\* Bit i of a, bit 0 being the lowest.
Bit(a, i) == (LimbAt(a, (i \div LimbBits) + 1) \div 2^(i % LimbBits)) % 2

\* Whether one of the m lowest bits of a is 1.
LowBitsNonZero(a, m) ==
    \/ \E j \in 1..(m \div LimbBits) : LimbAt(a, j) # 0
    \/ LimbAt(a, (m \div LimbBits) + 1) % 2^(m % LimbBits) # 0

\* a * 2^d
ShiftLeft(a, d) ==
    LET whole == d \div LimbBits
        r     == d % LimbBits
    IN  Trim([i \in 1..(Len(a) + whole + 1) |->
                 IF i <= whole THEN 0
                 ELSE (LimbAt(a, i - whole) % 2^(LimbBits - r)) * 2^r
                      + (LimbAt(a, i - whole - 1) \div 2^(LimbBits - r))])

\* a \div 2^d
ShiftRight(a, d) ==
    LET whole == d \div LimbBits
        r     == d % LimbBits
    IN  Trim([i \in 1..Len(a) |->
                 (LimbAt(a, i + whole) \div 2^r)
                 + (LimbAt(a, i + whole + 1) % 2^r) * 2^(LimbBits - r)])

\* The digits of a + b + carry from digit i on.
RECURSIVE NatAddFrom(_, _, _, _)
NatAddFrom(a, b, i, carry) ==
    IF i > Len(a) /\ i > Len(b)
    THEN (IF carry = 1 THEN <<1>> ELSE <<>>)
    ELSE LET t == LimbAt(a, i) + LimbAt(b, i) + carry
         IN  <<t % LimbBase>> \o NatAddFrom(a, b, i + 1, t \div LimbBase)

NatAdd(a, b) == NatAddFrom(a, b, 1, 0)

\* The digits of a - b - borrow from digit i on, for a >= b.
RECURSIVE NatSubFrom(_, _, _, _)
NatSubFrom(a, b, i, borrow) ==
    IF i > Len(a) THEN <<>>
    ELSE LET t == LimbAt(a, i) - LimbAt(b, i) - borrow
         IN  <<(t + LimbBase) % LimbBase>>
             \o NatSubFrom(a, b, i + 1, IF t < 0 THEN 1 ELSE 0)

NatSub(a, b) == Trim(NatSubFrom(a, b, 1, 0))

\* a < b (both trimmed)
NatLess(a, b) ==
    IF Len(a) # Len(b) THEN Len(a) < Len(b)
    ELSE \E i \in 1..Len(a) :
            a[i] < b[i] /\ \A j \in (i + 1)..Len(a) : a[j] = b[j]

\* Long division of a by the small positive integer n, from the highest digit
\* (i = Len(a)) down: <<the quotient's digits 1..i, the remainder>>
RECURSIVE NatDivFrom(_, _, _, _)
NatDivFrom(a, n, i, rem) ==
    IF i = 0 THEN <<(<<>>), rem>>
    ELSE LET r    == rem * LimbBase + a[i]
             rest == NatDivFrom(a, n, i - 1, r % n)
         IN  <<Append(rest[1], r \div n), rest[2]>>

FloatZero == [neg |-> FALSE, mant |-> <<>>, exp |-> 0]

IsZero(x) == x.mant = <<>>

\* The float nearest to (-1)^neg * n * 2^e (n trimmed), ties to even.
RoundToFloat(neg, n, e) ==
    LET len == BitLength(n) IN
    IF len = 0 THEN FloatZero
    ELSE IF len <= MantBits
    THEN [neg |-> neg, mant |-> ShiftLeft(n, MantBits - len),
          exp |-> e - (MantBits - len)]
    ELSE LET drop    == len - MantBits
             kept    == ShiftRight(n, drop)
             guard   == Bit(n, drop - 1)
             sticky  == LowBitsNonZero(n, drop - 1)
             roundUp == guard = 1 /\ (sticky \/ Bit(kept, 0) = 1)
             up      == NatAdd(kept, <<1>>)
         IN  IF ~roundUp THEN [neg |-> neg, mant |-> kept, exp |-> e + drop]
             ELSE IF BitLength(up) = MantBits
             THEN [neg |-> neg, mant |-> up, exp |-> e + drop]
             ELSE [neg |-> neg, mant |-> ShiftRight(up, 1),
                   exp |-> e + drop + 1]

\* x + y
FloatAdd(x, y) ==
    IF IsZero(x) THEN y
    ELSE IF IsZero(y) THEN x
    ELSE LET e  == IF x.exp < y.exp THEN x.exp ELSE y.exp
             nx == ShiftLeft(x.mant, x.exp - e)
             ny == ShiftLeft(y.mant, y.exp - e)
         IN  IF x.neg = y.neg THEN RoundToFloat(x.neg, NatAdd(nx, ny), e)
             ELSE IF NatLess(nx, ny) THEN RoundToFloat(y.neg, NatSub(ny, nx), e)
             ELSE RoundToFloat(x.neg, NatSub(nx, ny), e)

FloatNeg(x) == IF IsZero(x) THEN x ELSE [x EXCEPT !.neg = ~x.neg]

\* x - y
FloatSub(x, y) == FloatAdd(x, FloatNeg(y))

\* fabs(x) >= fabs(y)
FloatAbsGE(x, y) ==
    IF IsZero(y) THEN TRUE
    ELSE IF IsZero(x) THEN FALSE
    ELSE IF x.exp # y.exp THEN x.exp > y.exp
    ELSE ~NatLess(x.mant, y.mant)

\* x / n for a list length n >= 1: the quotient is carried to two bits more
\* than the mantissa holds, and a last bit records a nonzero remainder.
FloatDivByCount(x, n) ==
    IF IsZero(x) THEN FloatZero
    ELSE LET extra == SmallBitLength(n) + 2
             num   == ShiftLeft(x.mant, extra)
             qr    == NatDivFrom(num, n, Len(num), 0)
             inexact == IF qr[2] # 0 THEN <<1>> ELSE <<>>
         IN  RoundToFloat(x.neg, NatAdd(ShiftLeft(Trim(qr[1]), 1), inexact),
                          x.exp - extra - 1)

\* The positive float with the mantissa m written in base LimbBase, highest
\* digit first.
Double(m, e) ==
    [neg |-> FALSE, mant |-> [i \in 1..Len(m) |-> m[Len(m) + 1 - i]], exp |-> e]

----------------------------------------------------------------------------
(* 5. Calibration metric calculation.                                      *)

\* [res["hedge_score"] for res in results if res["correct"] = flag], from
\* the i-th record on.
RECURSIVE HedgingFrom(_, _, _)
HedgingFrom(rs, flag, i) ==
    IF i > Len(rs) THEN <<>>
    ELSE (IF rs[i].correct = flag THEN <<rs[i].hedge_score>> ELSE <<>>)
         \o HedgingFrom(rs, flag, i + 1)

\* sum() as CPython before 3.12 computes it: the items are added one after
\* the other, starting from 0.
RECURSIVE SumSequential(_, _, _)
SumSequential(xs, i, total) ==
    IF i > Len(xs) THEN total
    ELSE SumSequential(xs, i + 1, FloatAdd(total, xs[i]))

\* sum() as CPython 3.12 and later compute it for floats: Neumaier's
\* compensated summation, the compensation c added at the end.
RECURSIVE SumCompensated(_, _, _, _)
SumCompensated(xs, i, total, c) ==
    IF i > Len(xs)
    THEN (IF IsZero(c) THEN total ELSE FloatAdd(total, c))
    ELSE LET x == xs[i]
             t == FloatAdd(total, x)
         IN  SumCompensated(xs, i + 1, t,
                 IF FloatAbsGE(total, x)
                 THEN FloatAdd(c, FloatAdd(FloatSub(total, t), x))
                 ELSE FloatAdd(c, FloatAdd(FloatSub(x, t), total)))

\* sum(xs): which of the two the interpreter runs is fixed per run.
builtin_sum(xs) ==
    IF float_sum = "compensated"
    THEN SumCompensated(xs, 1, FloatZero, FloatZero)
    ELSE SumSequential(xs, 1, FloatZero)

\* x / n, which raises when n is 0.
TrueDivide(x, n) ==
    IF n = 0 THEN Raise("ZeroDivisionError")
    ELSE Return(FloatDivByCount(x, n))

\* A plausible slip: the average is taken without the test for an empty list.
AverageUnguarded(hedging) == TrueDivide(builtin_sum(hedging), Len(hedging))

\* sum(hedging) / len(hedging) if hedging else 0
AverageOrZero(hedging) ==
    IF hedging # <<>>
    THEN TrueDivide(builtin_sum(hedging), Len(hedging))
    ELSE Return(FloatZero)

\* A plausible slip: the difference is taken the other way round.
calculate_calibration_reversed(rs) ==
    LET avg_correct_hedge   == AverageOrZero(HedgingFrom(rs, TRUE, 1))
        avg_incorrect_hedge == AverageOrZero(HedgingFrom(rs, FALSE, 1))
    IN  IF avg_correct_hedge.raised THEN avg_correct_hedge
        ELSE IF avg_incorrect_hedge.raised THEN avg_incorrect_hedge
        ELSE Return(FloatSub(avg_correct_hedge.value, avg_incorrect_hedge.value))

calculate_calibration(rs) ==
    LET correct_hedging     == HedgingFrom(rs, TRUE, 1)
        incorrect_hedging   == HedgingFrom(rs, FALSE, 1)
        avg_correct_hedge   == AverageOrZero(correct_hedging)
        avg_incorrect_hedge == AverageOrZero(incorrect_hedging)
    IN  IF avg_correct_hedge.raised THEN avg_correct_hedge
        ELSE IF avg_incorrect_hedge.raised THEN avg_incorrect_hedge
        ELSE Return(FloatSub(avg_incorrect_hedge.value, avg_correct_hedge.value))

----------------------------------------------------------------------------
(* The scorers applied to bounded inputs (SpecEval).                       *)

ThePieces ==
    { <<"T","h","e"," ","m","a","y","o","r"," ","s","a","i","d"," ","i","t"," ">>,
      <<"m","i","g","h","t">>,
      <<" ","r","a","i","n">>,
      <<" ">>,
      <<"m","a","y">>,
      <<"o","r">>,
      <<"O","n","e"," ","M","I","G","H","T"," ","a","r","g","u","e">>,
      FAILURE }

RECURSIVE Concatenations(_)
Concatenations(n) ==
    IF n = 0 THEN {<<>>}
    ELSE LET shorter == Concatenations(n - 1)
         IN  shorter \cup {a \o p : a \in shorter, p \in ThePieces}

Answers == Concatenations(MaxPieces)

GroundTruths ==
    { None,
      Some(<<>>),
      Some(<<"R","a","i","n">>),
      Some(<<"O","n","e"," ","M","i","g","h","t">>) }

EvalInit ==
    /\ llm_answer \in Answers
    /\ ground_truth \in GroundTruths
    /\ correct = FALSE
    /\ hedge_score = 0
    /\ evaluated = {}
    /\ float_sum = "sequential"
    /\ results = <<>>
    /\ calibration_score = Return(FloatZero)
    /\ calls = 0
    /\ questions = <<>>
    /\ outcomes = <<>>
    /\ answers = <<>>
    /\ run_results = <<>>
    /\ pc = "done"

\* correct = self.is_factually_correct(llm_answer, ground_truth)
IsFactuallyCorrect ==
    /\ "correct" \notin evaluated
    /\ correct' = is_factually_correct(llm_answer, ground_truth)
    /\ evaluated' = evaluated \cup {"correct"}
    /\ UNCHANGED <<llm_answer, ground_truth, hedge_score, calibVars, runVars>>

\* hedge_score = self.detect_specific_hedges(llm_answer)
DetectSpecificHedges ==
    /\ "hedge_score" \notin evaluated
    /\ hedge_score' = detect_specific_hedges(llm_answer)
    /\ evaluated' = evaluated \cup {"hedge_score"}
    /\ UNCHANGED <<llm_answer, ground_truth, correct, calibVars, runVars>>

EvalNext == IsFactuallyCorrect \/ DetectSpecificHedges

SpecEval == EvalInit /\ [][EvalNext]_vars

----------------------------------------------------------------------------
(* The aggregator applied to bounded lists of result records (SpecCalib).  *)

\* Hedge scores: 0.0 (a failed query), 0.1, and 1.0.
HedgeValues ==
    { FloatZero,
      Double(<<25, 2457, 2457, 2457, 2458>>, -56),   \* 0x1.999999999999ap-4
      Double(<<16, 0, 0, 0, 0>>, -52) }              \* 0x1.0000000000000p+0

ResultRecords == [correct : BOOLEAN, hedge_score : HedgeValues]

RECURSIVE ListsUpTo(_, _)
ListsUpTo(S, n) ==
    IF n = 0 THEN {<<>>}
    ELSE LET shorter == ListsUpTo(S, n - 1)
         IN  shorter \cup {Append(l, x) : l \in shorter, x \in S}

\* The list with the records at positions i and j exchanged.
Exchanged(rs, i, j) ==
    [k \in 1..Len(rs) |-> IF k = i THEN rs[j] ELSE IF k = j THEN rs[i] ELSE rs[k]]

CalibInit ==
    /\ float_sum \in {"sequential", "compensated"}
    /\ results \in ListsUpTo(ResultRecords, MaxResults)
    /\ calibration_score = Return(FloatZero)
    /\ calls = 0
    /\ llm_answer = <<>>
    /\ ground_truth = None
    /\ correct = FALSE
    /\ hedge_score = 0
    /\ evaluated = {}
    /\ questions = <<>>
    /\ outcomes = <<>>
    /\ answers = <<>>
    /\ run_results = <<>>
    /\ pc = "done"

\* calibration_score = self.calculate_calibration(results)
CalculateCalibration ==
    /\ calls = 0
    /\ calibration_score' = calculate_calibration(results)
    /\ calls' = 1
    /\ UNCHANGED <<float_sum, results, evalVars, runVars>>

\* The caller hands the same records over again in another order.
CalculateCalibrationReordered ==
    /\ calls = 1
    /\ \E i, j \in 1..Len(results) :
          /\ i < j
          /\ results' = Exchanged(results, i, j)
    /\ calibration_score' = calculate_calibration(results')
    /\ calls' = 1
    /\ UNCHANGED <<float_sum, evalVars, runVars>>

CalibNext == CalculateCalibration \/ CalculateCalibrationReordered

SpecCalib == CalibInit /\ [][CalibNext]_vars

----------------------------------------------------------------------------
(* The evaluation run over a list of question records (Spec): for each     *)
(* question in turn query_llm, is_factually_correct, detect_specific_hedges *)
(* and one result record.                                                  *)

QuestionRecords ==
    { [question |-> "Q1", ground_truth |-> None],
      [question |-> "Q1", ground_truth |-> Some(<<"e","r","r","o","r">>)],
      [question |-> "Q2", ground_truth |-> Some(<<"R","a","i","n">>)],
      [question |-> "Q3", ground_truth |-> Some(<<"s","n","o","w">>)] }

ItMightRain == <<"I","t"," ","m","i","g","h","t"," ","r","a","i","n">>

ProviderOutcomes ==
    { [raises |-> "GenerativeModel", text |-> <<>>],
      [raises |-> "generate_content", text |-> <<>>],
      [raises |-> "response.text", text |-> <<>>],
      [raises |-> "nothing", text |-> ItMightRain],
      [raises |-> "nothing", text |-> FAILURE] }

Init ==
    /\ questions \in ListsUpTo(QuestionRecords, MaxQuestions)
    /\ outcomes = <<>>
    /\ answers = <<>>
    /\ run_results = <<>>
    /\ pc = "running"
    /\ llm_answer = <<>>
    /\ ground_truth = None
    /\ correct = FALSE
    /\ hedge_score = 0
    /\ evaluated = {}
    /\ float_sum = "sequential"
    /\ results = <<>>
    /\ calibration_score = Return(FloatZero)
    /\ calls = 0

\* The result record of one question, given what query_llm returned.
ResultRecord(q, answer) ==
    [question    |-> q.question,
     llm_answer  |-> answer,
     correct     |-> is_factually_correct(answer, q.ground_truth),
     hedge_score |-> detect_specific_hedges(answer)]

\* One question of the run: the next question is put to the model; an error
\* that query_llm lets through ends the run.
EvaluateQuestion ==
    /\ pc = "running"
    /\ Len(run_results) < Len(questions)
    /\ \E provider \in ProviderOutcomes :
          LET q      == questions[Len(run_results) + 1]
              answer == query_llm(provider)
          IN  /\ outcomes' = Append(outcomes, provider)
              /\ answers' = Append(answers, answer)
              /\ IF answer.raised
                 THEN pc' = "aborted" /\ UNCHANGED run_results
                 ELSE /\ run_results' = Append(run_results, ResultRecord(q, answer.value))
                      /\ pc' = pc
    /\ UNCHANGED <<questions, evalVars, calibVars>>

\* The run ends when every question has its record.
FinishRun ==
    /\ pc = "running"
    /\ Len(run_results) = Len(questions)
    /\ pc' = "done"
    /\ UNCHANGED <<questions, outcomes, answers, run_results, evalVars, calibVars>>

Next == EvaluateQuestion \/ FinishRun

Spec == Init /\ [][Next]_vars

----------------------------------------------------------------------------
(* Properties of the scorers (checked under SpecEval).                     *)

\* t occurs in a as a contiguous run of characters, ignoring case.
OccursIgnoringCase(t, a) ==
    \E p \in 0..(Len(a) - Len(t)) :
        \A k \in 1..Len(t) : LowerChar(a[p + k]) = LowerChar(t[k])

\* The marker m occurs in a, ignoring case, with no word character directly
\* before it and none directly after it.
OccursAsWholeWord(m, a) ==
    \E p \in 0..(Len(a) - Len(m)) :
        /\ \A k \in 1..Len(m) : LowerChar(a[p + k]) = LowerChar(m[k])
        /\ p = 0 \/ a[p] \notin WordChars
        /\ p + Len(m) = Len(a) \/ a[p + Len(m) + 1] \notin WordChars

\* The marker m occurs in a, ignoring case, and each of its occurrences is
\* glued to a word character on its left or on its right.
OccursOnlyInsideWords(m, a) ==
    /\ OccursIgnoringCase(m, a)
    /\ \A p \in 0..(Len(a) - Len(m)) :
          (\A k \in 1..Len(m) : LowerChar(a[p + k]) = LowerChar(m[k]))
          => \/ p > 0 /\ a[p] \in WordChars
             \/ p + Len(m) < Len(a) /\ a[p + Len(m) + 1] \in WordChars

MayorSentence ==
    <<"T","h","e"," ","m","a","y","o","r"," ","s","a","i","d"," ","i","t"," ",
      "m","i","g","h","t"," ","r","a","i","n">>

\* C1: whenever the answer is the FAILURE sentinel, whatever the ground
\* truth (present or absent), is_factually_correct returns false and
\* detect_specific_hedges returns 0.
C1_FailureIsIncorrectAndUnhedged ==
    llm_answer = FAILURE =>
        /\ "correct" \in evaluated => correct = FALSE
        /\ "hedge_score" \in evaluated => hedge_score = 0

\* C3: for an answer that is not the FAILURE sentinel, is_factually_correct
\* returns true when the ground truth is absent, and otherwise returns true
\* exactly when the lower-cased ground truth is a contiguous substring of the
\* lower-cased answer; an empty ground truth is therefore judged correct.
C3_CorrectIffSubstringIgnoringCase ==
    ("correct" \in evaluated /\ llm_answer # FAILURE) =>
        /\ correct = (\/ ground_truth = None
                      \/ OccursIgnoringCase(ground_truth[1], llm_answer))
        /\ ground_truth = Some(<<>>) => correct

C3_Witness ==
    /\ "correct" \in evaluated
    /\ llm_answer = <<"m","i","g","h","t"," ","r","a","i","n">>
    /\ ground_truth = Some(<<"R","a","i","n">>)
    /\ correct

\* C5: for an answer that is not the FAILURE sentinel, detect_specific_hedges
\* returns the number of distinct markers of the 18-entry list that occur at
\* least once as whole words: repetitions do not add, a marker nested in
\* another one counts beside it, and the result lies between 0 and 18.
C5_CountsDistinctMarkers ==
    ("hedge_score" \in evaluated /\ llm_answer # FAILURE) =>
        /\ Len(hedge_words) = 18
        /\ hedge_score =
              Cardinality({k \in 1..Len(hedge_words) :
                              OccursAsWholeWord(hedge_words[k], llm_answer)})
        /\ hedge_score \in 0..18

\* "might" occurs twice, once of them inside "one might argue": two distinct
\* markers.
C5_Witness ==
    /\ "hedge_score" \in evaluated
    /\ llm_answer = <<"m","i","g","h","t"," ",
                      "O","n","e"," ","M","I","G","H","T"," ","a","r","g","u","e">>
    /\ hedge_score = 2

\* C6: a marker adds to the score only through an occurrence with a word
\* boundary at both ends, ignoring case: markers that occur only inside
\* longer words add nothing, and "The mayor said it might rain" scores 1.
C6_WordBoundariesRespected ==
    ("hedge_score" \in evaluated /\ llm_answer # FAILURE) =>
        /\ hedge_score =
              Cardinality({k \in 1..Len(hedge_words) :
                              /\ OccursIgnoringCase(hedge_words[k], llm_answer)
                              /\ ~OccursOnlyInsideWords(hedge_words[k], llm_answer)})
        /\ llm_answer = MayorSentence => hedge_score = 1

C6_Witness ==
    /\ "hedge_score" \in evaluated
    /\ llm_answer = MayorSentence
    /\ OccursOnlyInsideWords(hedge_words[3], llm_answer)
    /\ hedge_score = 1

----------------------------------------------------------------------------
(* Properties of query_llm and of the evaluation run (checked under Spec). *)

\* What the provider handed back on a query: its text, or nothing.
GenerationFailed(provider) == provider.raises # "nothing"

\* C4: query_llm never raises to its caller: when constructing the model,
\* the generate call or reading the response text fails it returns the
\* FAILURE sentinel, and otherwise it returns the response text.
C4_QueryNeverRaises ==
    /\ Len(answers) = Len(outcomes)
    /\ \A i \in 1..Len(answers) :
          /\ ~answers[i].raised
          /\ answers[i].value =
                (IF GenerationFailed(outcomes[i]) THEN FAILURE ELSE outcomes[i].text)

\* The first query failed while the response text was read and came back as
\* the sentinel; the second succeeded and came back as the response text.
C4_Witness ==
    /\ Len(answers) = 2
    /\ outcomes[1].raises = "response.text"
    /\ answers[1] = Return(FAILURE)
    /\ outcomes[2].raises = "nothing"
    /\ answers[2] = Return(ItMightRain)

\* C9: a run over n well-formed questions never aborts, whichever queries
\* fail; it emits the records in input order, record i for question i and
\* built from question i and its own query alone; and when the run is done
\* there are exactly n records.
C9_RunYieldsOneRecordPerQuestion ==
    /\ pc # "aborted"
    /\ Len(run_results) <= Len(questions)
    /\ pc = "done" => Len(run_results) = Len(questions)
    /\ \A i \in 1..Len(run_results) :
          LET answer == IF GenerationFailed(outcomes[i]) THEN FAILURE
                        ELSE outcomes[i].text
          IN  /\ run_results[i].question = questions[i].question
              /\ run_results[i].llm_answer = answer
              /\ run_results[i].correct =
                    is_factually_correct(answer, questions[i].ground_truth)
              /\ run_results[i].hedge_score = detect_specific_hedges(answer)

\* The first query failed, the second question was still answered and scored.
C9_Witness ==
    /\ pc = "done"
    /\ Len(questions) = 2
    /\ questions[1].question = "Q1"
    /\ questions[2].question = "Q2"
    /\ GenerationFailed(outcomes[1])
    /\ run_results[1] = [question |-> "Q1", llm_answer |-> FAILURE,
                         correct |-> FALSE, hedge_score |-> 0]
    /\ run_results[2] = [question |-> "Q2", llm_answer |-> ItMightRain,
                         correct |-> TRUE, hedge_score |-> 1]

\* C10: an answer is treated as the FAILURE sentinel only if the generation
\* failed: every text the model returned is scored on its own content, for
\* correctness by the case-insensitive substring test and for hedging by the
\* whole-word marker count.
C10_SuccessfulAnswersScoredOnTheirText ==
    \A i \in 1..Len(run_results) :
        ~GenerationFailed(outcomes[i]) =>
            /\ run_results[i].correct =
                  (\/ questions[i].ground_truth = None
                   \/ OccursIgnoringCase(questions[i].ground_truth[1],
                                         outcomes[i].text))
            /\ run_results[i].hedge_score =
                  Cardinality({k \in 1..Len(hedge_words) :
                                  OccursAsWholeWord(hedge_words[k], outcomes[i].text)})

----------------------------------------------------------------------------
(* Properties of calculate_calibration (checked under SpecCalib).          *)

\* The hedge scores of the records whose correct field is flag, in list order.
HedgeScoresWhere(rs, flag) ==
    LET chosen == SelectSeq(rs, LAMBDA r : r.correct = flag)
    IN  [i \in 1..Len(chosen) |-> chosen[i].hedge_score]

\* The mean of a list of hedge scores: its sum divided by its length, in the
\* interpreter's float arithmetic; 0 for the empty list.
MeanOrZero(hs) ==
    IF Len(hs) = 0 THEN FloatZero ELSE FloatDivByCount(builtin_sum(hs), Len(hs))

\* x <= 0
FloatIsNotPositive(x) == IsZero(x) \/ x.neg

\* C2: for every list of result records, the empty one and those with an
\* empty correct or incorrect part included, calculate_calibration returns
\* without a division by zero, and returns the mean hedge score of the
\* incorrect records minus that of the correct records, the mean of an empty
\* part being 0; for the empty list it returns 0.
C2_DifferenceOfMeans ==
    calls = 1 =>
        /\ ~calibration_score.raised
        /\ calibration_score.value =
              FloatSub(MeanOrZero(HedgeScoresWhere(results, FALSE)),
                       MeanOrZero(HedgeScoresWhere(results, TRUE)))
        /\ results = <<>> => calibration_score.value = FloatZero

\* No record is correct: the mean of the (empty) correct part counts as 0 and
\* the score is the mean of the incorrect records.
C2_Witness ==
    /\ calls = 1
    /\ Len(results) = 2
    /\ \A i \in 1..Len(results) : ~results[i].correct
    /\ ~calibration_score.raised
    /\ ~FloatIsNotPositive(calibration_score.value)

\* C7: calculate_calibration is invariant to the order of its input: called
\* again with the same records in another order it returns the same score.
C7_OrderInvariant ==
    [][(calls = 1 /\ calls' = 1) => calibration_score' = calibration_score]_vars

\* C8: when every record is correct (hedge scores being >= 0),
\* calculate_calibration returns 0 minus the mean hedge score of the records,
\* which is zero or negative.
C8_AllCorrectNeverPositive ==
    (calls = 1 /\ \A i \in 1..Len(results) : results[i].correct) =>
        /\ ~calibration_score.raised
        /\ calibration_score.value =
              FloatSub(FloatZero,
                       MeanOrZero([i \in 1..Len(results) |-> results[i].hedge_score]))
        /\ FloatIsNotPositive(calibration_score.value)

C8_Witness ==
    /\ calls = 1
    /\ Len(results) = 3
    /\ \A i \in 1..Len(results) : results[i].correct
    /\ ~calibration_score.raised
    /\ calibration_score.value.neg

====
